---- MODULE Spec2Model ----
(***************************************************************************)
(* Universal terminal (shendgeshraddha/Cust-Terminal-): a model of the     *)
(* three program variants of the repository                                *)
(*   "custard" = src/custard.c, "cust" = src/cust.c,                       *)
(*   "part"    = src/unnamed/part_000.                                     *)
(* A C string is modelled as a sequence of one-character strings, so that  *)
(* tokenizing, trimming, searching and formatting are computed character   *)
(* by character as the C code does.                                        *)
(***************************************************************************)
EXTENDS Integers, Sequences, FiniteSets, TLC

VARIABLES
    variant,            \* which program of the repository runs
    host,               \* HOST_IS_WINDOWS (fixed when the program is built)
    source_is_windows,  \* main's local: -1 until the dialect is chosen
    pc,                 \* position of main
    history,            \* static char *history[MAX_HISTORY]
    hist_count,         \* static int hist_count
    recorded,           \* ghost: every line add_history stored, in order
    line,               \* main's line buffer as the iteration left it
    translated,         \* the string translate_pipeline returned to main
    executed,           \* the strings handed to system() for execution in the last iteration
    out,                \* the kinds of message printed in the last iteration
    eof,                \* the input collaborator has reported end of input
    res                 \* result of the last pure-function application

vars == <<variant, host, source_is_windows, pc, history, hist_count, recorded,
          line, translated, executed, out, eof, res>>

----------------------------------------------------------------------------
(* Bounds of the model *)

\* capacity of the history store in the model (the source sets 1000)
HistCap == 2
\* number of lines add_history may store in one behaviour of SpecHist
MaxRecorded == 4

(* Program constants *)
MAX_LINE == 8192
MAX_TOK == 256
MAX_HISTORY == HistCap

Variants == {"custard", "cust", "part"}
\* the null pointer: no string of the program has this shape (a string is a
\* sequence of single characters)
NULL == <<"NULL">>
Min(a, b) == IF a < b THEN a ELSE b

----------------------------------------------------------------------------
(* C library helpers on strings *)

\* strlen(s)==0 style truncation of a write into a buffer of n+1 bytes
Trunc(s, n) == IF Len(s) <= n THEN s ELSE SubSeq(s, 1, n)

isspace(c) == c \in {" ", "\t", "\n", "\r"}
isdigit(c) == c \in {"0", "1", "2", "3", "4", "5", "6", "7", "8", "9"}

UpperChars == <<"A","B","C","D","E","F","G","H","I","J","K","L","M",
                "N","O","P","Q","R","S","T","U","V","W","X","Y","Z">>
LowerChars == <<"a","b","c","d","e","f","g","h","i","j","k","l","m",
                "n","o","p","q","r","s","t","u","v","w","x","y","z">>
tolower(c) ==
    IF \E i \in 1..26 : UpperChars[i] = c
    THEN LowerChars[CHOOSE i \in 1..26 : UpperChars[i] = c]
    ELSE c

\* the suffix of s starting at 1-based position i (the C pointer s+i-1)
From(s, i) == IF i > Len(s) THEN <<>> ELSE SubSeq(s, i, Len(s))

\* number of leading whitespace characters of s
LeadingSpaces(s) ==
    LET stops == {i \in 1..Len(s) : ~isspace(s[i])}
    IN  IF stops = {} THEN Len(s) ELSE (CHOOSE i \in stops : \A j \in stops : i <= j) - 1

\* s without its trailing whitespace characters
DropTrailingSpaces(s) ==
    LET keep == {i \in 1..Len(s) : ~isspace(s[i])}
    IN  IF keep = {} THEN <<>> ELSE SubSeq(s, 1, CHOOSE i \in keep : \A j \in keep : i >= j)

trim(s) == DropTrailingSpaces(From(s, LeadingSpaces(s) + 1))

lc_copy(s) == [i \in 1..Len(s) |-> tolower(s[i])]

IsPrefix(p, s) == Len(p) <= Len(s) /\ SubSeq(s, 1, Len(p)) = p

\* strstr(s, pat): 1-based position of the first occurrence of pat in s, 0 if none
strstr(s, pat) ==
    LET hits == {i \in 1..(Len(s) - Len(pat) + 1) : SubSeq(s, i, i + Len(pat) - 1) = pat}
    IN  IF Len(pat) = 0 THEN 1
        ELSE IF hits = {} THEN 0
        ELSE CHOOSE i \in hits : \A j \in hits : i <= j
has(s, pat) == strstr(s, pat) # 0

\* strchr / strrchr on a single character: 1-based position, 0 if none
strchr(s, c) ==
    LET hits == {i \in 1..Len(s) : s[i] = c}
    IN  IF hits = {} THEN 0 ELSE CHOOSE i \in hits : \A j \in hits : i <= j
strrchr(s, c) ==
    LET hits == {i \in 1..Len(s) : s[i] = c}
    IN  IF hits = {} THEN 0 ELSE CHOOSE i \in hits : \A j \in hits : i >= j

\* the length of the run of characters of s, from its start, that are not in cs
SpanUntil(s, cs) ==
    LET stops == {i \in 1..Len(s) : s[i] \in cs}
    IN  IF stops = {} THEN Len(s) ELSE (CHOOSE i \in stops : \A j \in stops : i <= j) - 1
\* the length of the run of characters of s, from its start, that are in cs
SpanWhile(s, cs) ==
    LET stops == {i \in 1..Len(s) : s[i] \notin cs}
    IN  IF stops = {} THEN Len(s) ELSE (CHOOSE i \in stops : \A j \in stops : i <= j) - 1

Spaces == {" ", "\t", "\n", "\r"}
Digits == {"0", "1", "2", "3", "4", "5", "6", "7", "8", "9"}

\* strtok(s, delim): the tokens of s, the maximal runs of characters outside delims
RECURSIVE strtok_all(_, _)
strtok_all(s, delims) ==
    LET skip == SpanWhile(s, delims)
        t    == From(s, skip + 1)
        n    == SpanUntil(t, delims)
    IN  IF t = <<>> THEN <<>>
        ELSE <<SubSeq(t, 1, n)>> \o strtok_all(From(t, n + 2), delims)

----------------------------------------------------------------------------
(* Integers of the C program: int is 32 bits wide. Values are accumulated in
   two 16-bit halves so that the arithmetic of the model never leaves the
   range of the checker's own integers. *)

INT_MAX == 32767 * (2^16) + 65535

DigitChars == <<"0", "1", "2", "3", "4", "5", "6", "7", "8", "9">>
DigitVal(c) == (CHOOSE d \in 1..10 : DigitChars[d] = c) - 1

\* the decimal value of a run of digits, modulo 2^32, and whether it passed INT_MAX
RECURSIVE AccDigits(_, _)
AccDigits(ds, acc) ==
    IF ds = <<>> THEN acc
    ELSE LET lo2 == acc.lo * 10 + DigitVal(Head(ds))
             hi2 == acc.hi * 10 + (lo2 \div (2^16))
         IN  AccDigits(Tail(ds), [lo  |-> lo2 % (2^16),
                                  hi  |-> hi2 % (2^16),
                                  big |-> acc.big \/ hi2 >= 32768])
ParseDigits(ds) == AccDigits(ds, [lo |-> 0, hi |-> 0, big |-> FALSE])

\* the 32-bit two's-complement reading of the two halves
Wrap32(a) == IF a.hi >= 32768 THEN (a.hi - (2^16)) * (2^16) + a.lo
             ELSE a.hi * (2^16) + a.lo

\* atoi(s) for s starting with a digit: the value of the leading digit run. A value
\* above INT_MAX is undefined behaviour; C libraries wrap it to 32 bits (glibc's
\* (int) strtol, musl), saturate it (INT_MAX) or return -1 ((int) LONG_MAX).
atoi(s) ==
    LET a == ParseDigits(SubSeq(s, 1, SpanWhile(s, Digits)))
    IN  IF a.big THEN {Wrap32(a), INT_MAX, -1} ELSE {Wrap32(a)}

\* printf("%d") of a non-negative int
RECURSIVE FmtNat(_)
FmtNat(n) == IF n < 10 THEN <<DigitChars[n + 1]>>
             ELSE FmtNat(n \div 10) \o <<DigitChars[(n % 10) + 1]>>
FmtInt(n) == IF n < 0 THEN <<"-">> \o FmtNat(0 - n) ELSE FmtNat(n)

\* sscanf(s, "-n %d", &N): [ok, N, ub]; ub when the number does not fit an int
sscanf_n(s) ==
    LET t    == IF IsPrefix(<<"-", "n">>, s) THEN From(s, 3) ELSE <<>>
        u    == From(t, LeadingSpaces(t) + 1)
        neg  == u # <<>> /\ Head(u) = "-"
        v    == IF u # <<>> /\ Head(u) \in {"-", "+"} THEN Tail(u) ELSE u
        nd   == SpanWhile(v, Digits)
        a    == ParseDigits(SubSeq(v, 1, nd))
    IN  IF ~IsPrefix(<<"-", "n">>, s) \/ nd = 0
        THEN [ok |-> FALSE, N |-> 0, ub |-> FALSE]
        ELSE [ok |-> TRUE,
              N  |-> IF a.big THEN 0 ELSE IF neg THEN 0 - Wrap32(a) ELSE Wrap32(a),
              ub |-> a.big]

----------------------------------------------------------------------------
(* History buffer *)

EmptyHistory == [i \in 0..(MAX_HISTORY - 1) |-> NULL]

\* add_history with the rotation leaving the oldest entry in place
add_history_norotate(h, count, cmd) ==
    IF cmd = NULL \/ Len(cmd) = 0 THEN [history |-> h, hist_count |-> count]
    ELSE IF count < MAX_HISTORY
    THEN [history |-> [h EXCEPT ![count] = cmd], hist_count |-> count + 1]
    ELSE [history |-> [h EXCEPT ![MAX_HISTORY - 1] = cmd], hist_count |-> count]

\* add_history without the test for an empty or null line
add_history_unchecked(h, count, cmd) ==
    IF count < MAX_HISTORY
    THEN [history |-> [h EXCEPT ![count] = cmd], hist_count |-> count + 1]
    ELSE [history |-> [i \in 0..(MAX_HISTORY - 1) |->
                          IF i < MAX_HISTORY - 1 THEN h[i + 1] ELSE cmd],
          hist_count |-> count]

add_history(h, count, cmd) ==
    IF cmd = NULL \/ Len(cmd) = 0 THEN [history |-> h, hist_count |-> count]
    ELSE IF count < MAX_HISTORY
    THEN [history |-> [h EXCEPT ![count] = cmd], hist_count |-> count + 1]
    ELSE \* rotate: free oldest, memmove the rest down, store in the last slot
         [history |-> [i \in 0..(MAX_HISTORY - 1) |->
                          IF i < MAX_HISTORY - 1 THEN h[i + 1] ELSE cmd],
          hist_count |-> count]

\* print_history: the (index, line) pairs printed, in order
print_history(h, count) ==
    LET start == IF count > 100 THEN count - 100 ELSE 0
    IN  [k \in 1..(count - start) |-> <<start + k, h[start + k - 1]>>]

\* expand_bang returning every command as it was typed
expand_bang_literal(cmd, h, count) == {cmd}

\* expand_bang: the strings it may return (one, unless atoi's behaviour is undefined)
expand_bang(cmd, h, count) ==
    IF cmd = <<"!", "!">>
    THEN IF count = 0 THEN {<<>>} ELSE {h[count - 1]}
    ELSE IF Len(cmd) >= 2 /\ cmd[1] = "!" /\ isdigit(cmd[2])
    THEN {IF n <= 0 \/ n > count THEN <<>> ELSE h[n - 1] : n \in atoi(Tail(cmd))}
    ELSE {cmd}

----------------------------------------------------------------------------
(* Tokenizer *)

\* split_first(in, first, rest): the verb, the remainder, and whether the verb
\* with its terminator overran the MAX_TOK bytes of the caller's buffer
split_first(in) ==
    LET p0 == From(in, LeadingSpaces(in) + 1)
    IN  IF p0 = <<>> THEN [first |-> <<>>, rest |-> <<>>, ovf |-> FALSE]
        ELSE IF Head(p0) \in {"'", "\""}
        THEN LET q     == Head(p0)
                 start == Tail(p0)
                 n     == SpanUntil(start, {q})
                 p1    == From(start, n + 1)
                 p2    == IF p1 # <<>> THEN Tail(p1) ELSE p1
                 p3    == From(p2, LeadingSpaces(p2) + 1)
             IN  [first |-> SubSeq(start, 1, n),
                  rest  |-> Trunc(p3, MAX_LINE - 1),
                  ovf   |-> n + 1 > MAX_TOK]
        ELSE LET n  == SpanUntil(p0, Spaces)
                 p1 == From(p0, n + 1)
                 p3 == From(p1, LeadingSpaces(p1) + 1)
             IN  [first |-> SubSeq(p0, 1, n),
                  rest  |-> Trunc(p3, MAX_LINE - 1),
                  ovf   |-> n + 1 > MAX_TOK]

\* replace_first(s, old, new): s with the first occurrence of old replaced
replace_first(s, old, new) ==
    LET pos == strstr(s, old)
    IN  IF pos = 0 THEN s
        ELSE Trunc(SubSeq(s, 1, pos - 1) \o new \o From(s, pos + Len(old)), MAX_LINE - 1)

----------------------------------------------------------------------------
(* Command mapping. A result is [out, rule, ub, tok]: the string returned, the
   rule that fired, whether computing it ran into undefined behaviour, and
   whether it called strtok (which on Windows shares its state with the caller). *)

MAPPED_SIZE == 2 * MAX_LINE

R(o, r) == [out |-> Trunc(o, MAPPED_SIZE - 1), rule |-> r, ub |-> FALSE, tok |-> FALSE]

\* APPREST(): append " " and rest to mapped when rest is not empty
APPREST(mapped, rest) ==
    IF Len(rest) # 0
    THEN Trunc((IF Len(mapped) # 0 THEN mapped \o <<" ">> ELSE mapped) \o rest,
               MAPPED_SIZE - 1)
    ELSE mapped

\* strncat(mapped, " ", ..); strncat(mapped, t, ..)
CatSp(mapped, t) == Trunc(mapped \o <<" ">> \o t, MAPPED_SIZE - 1)

\* the last token of s split at single spaces (a strtok loop, or strrchr(s, ' ') + 1)
LastToken(s) ==
    LET toks == strtok_all(s, {" "})
    IN  IF toks = <<>> THEN NULL ELSE toks[Len(toks)]
AfterLastSpace(s) == From(s, strrchr(s, " ") + 1)

\* custard.c, the default fallback of the Linux -> Windows table: bash -lc "input"
fallback_posix_to_windows(input) == R(<<"b","a","s","h"," ","-","l","c"," ","\"">> \o input \o <<"\"">>, "fallback")

\* the fallback returning the mapped buffer, which no rule has filled
fallback_returns_mapped(input) == R(<<>>, "fallback")

\* custard.c, the fallback of the Windows -> Linux table: return original
fallback_windows_to_posix(input) == R(input, "fallback")

\* custard.c, head: split_first(rest, sec, sec) copies MAX_LINE-1 bytes into sec[MAX_TOK]
head_rule(rest) ==
    LET nptr == strstr(rest, <<"-","n">>)
        sc   == IF nptr # 0 THEN sscanf_n(From(rest, nptr))
                ELSE [ok |-> FALSE, N |-> 0, ub |-> FALSE]
        file == AfterLastSpace(trim(rest))
        o    == IF sc.ok
                THEN <<"p","o","w","e","r","s","h","e","l","l"," ","-","C","o","m","m","a","n","d"," ","\"","G","e","t","-","C","o","n","t","e","n","t"," ">> \o file
                     \o <<" ","-","T","o","t","a","l","C","o","u","n","t"," ">> \o FmtInt(sc.N) \o <<"\"">>
                ELSE IF Len(rest) # 0
                THEN <<"p","o","w","e","r","s","h","e","l","l"," ","-","C","o","m","m","a","n","d"," ","\"","G","e","t","-","C","o","n","t","e","n","t"," ">> \o rest
                     \o <<" ","-","T","o","t","a","l","C","o","u","n","t"," ","1","0","\"">>
                ELSE <<"m","o","r","e">>
    IN  [out |-> Trunc(o, MAPPED_SIZE - 1), rule |-> "head",
         ub |-> (Len(rest) # 0) \/ sc.ub, tok |-> FALSE]

\* custard.c, tail
tail_rule(rest) ==
    LET nptr == strstr(rest, <<"-","n">>)
        sc   == IF nptr # 0 THEN sscanf_n(From(rest, nptr))
                ELSE [ok |-> FALSE, N |-> 0, ub |-> FALSE]
        fn   == LastToken(rest)
    IN  IF has(rest, <<"-","f">>) \/ has(rest, <<"-","F">>)
        THEN R(<<"p","o","w","e","r","s","h","e","l","l"," ","-","C","o","m","m","a","n","d"," ","\"","G","e","t","-","C","o","n","t","e","n","t"," ">>
               \o trim(replace_first(replace_first(rest, <<"-","f">>, <<>>), <<"-","F">>, <<>>))
               \o <<" ","-","W","a","i","t","\"">>, "tail")
        ELSE IF sc.ok /\ fn # NULL
        THEN [out |-> Trunc(<<"p","o","w","e","r","s","h","e","l","l"," ","-","C","o","m","m","a","n","d"," ","\"","G","e","t","-","C","o","n","t","e","n","t"," ">> \o fn
                            \o <<" ","-","T","a","i","l"," ">> \o FmtInt(sc.N) \o <<"\"">>, MAPPED_SIZE - 1),
              rule |-> "tail", ub |-> sc.ub, tok |-> TRUE]
        ELSE [out |-> Trunc(APPREST(<<"p","o","w","e","r","s","h","e","l","l"," ","-","C","o","m","m","a","n","d"," ","\"","G","e","t","-","C","o","n","t","e","n","t"," ">>, rest)
                            \o <<" ","-","T","a","i","l"," ","1","0","\"">>, MAPPED_SIZE - 1),
              rule |-> "tail", ub |-> sc.ub, tok |-> sc.ok]

\* custard.c, taskkill: the PID is the token after "/PID", at most MAX_TOK-1 characters
taskkill_rule(rest) ==
    LET t   == trim(rest)
        pos == strstr(t, <<"/","P","I","D">>)
        p   == From(t, pos + 4)
        q   == From(p, LeadingSpaces(p) + 1)
        pid == SubSeq(q, 1, Min(SpanUntil(q, Spaces), MAX_TOK - 1))
    IN  IF pos # 0 THEN R(<<"k","i","l","l"," ","-","9"," ">> \o pid, "taskkill")
        ELSE R(APPREST(<<"r","e","m"," ","c","a","n","n","o","t"," ","m","a","p"," ","t","a","s","k","k","i","l","l",":"," ","c","h","e","c","k"," ","a","r","g","s">>, rest), "taskkill")

\* custard.c, Linux -> Windows mappings
custard_posix_to_windows(input, first_lc, rest) ==
    IF first_lc = <<"p","w","d">> THEN R(<<"c","d">>, "pwd")
    ELSE IF first_lc = <<"l","s">> THEN
        IF has(rest, <<"-","l">>) /\ has(rest, <<"-","a">>) THEN R(APPREST(<<"d","i","r"," ","/","a"," ","/","q">>, rest), "ls")
        ELSE IF has(rest, <<"-","l">>) THEN R(APPREST(<<"d","i","r">>, rest), "ls")
        ELSE IF has(rest, <<"-","a">>) THEN R(APPREST(<<"d","i","r"," ","/","a">>, rest), "ls")
        ELSE R(APPREST(<<"d","i","r">>, rest), "ls")
    ELSE IF first_lc = <<"m","k","d","i","r">> THEN R(APPREST(<<"m","k","d","i","r">>, rest), "mkdir")
    ELSE IF first_lc = <<"r","m","d","i","r">> THEN R(APPREST(<<"r","m","d","i","r">>, rest), "rmdir")
    ELSE IF first_lc = <<"r","m">> THEN
        IF has(rest, <<"-","r">>) \/ has(rest, <<"-","r","f">>)
        THEN LET t == replace_first(replace_first(rest, <<"-","r">>, <<>>), <<"-","r","f">>, <<>>)
             IN  R(IF Len(t) # 0 THEN CatSp(<<"r","m","d","i","r"," ","/","s"," ","/","q">>, t) ELSE <<"r","m","d","i","r"," ","/","s"," ","/","q">>, "rm")
        ELSE R(APPREST(<<"d","e","l">>, rest), "rm")
    ELSE IF first_lc = <<"t","o","u","c","h">> THEN
        IF Len(rest) # 0 THEN R(CatSp(<<"t","y","p","e"," ","n","u","l"," ",">">>, trim(rest)), "touch")
        ELSE R(<<"r","e","m"," ","t","o","u","c","h",":"," ","m","i","s","s","i","n","g"," ","f","i","l","e","n","a","m","e">>, "touch")
    ELSE IF first_lc = <<"c","p">> THEN R(APPREST(<<"c","o","p","y">>, rest), "cp")
    ELSE IF first_lc = <<"m","v">> THEN R(APPREST(<<"m","o","v","e">>, rest), "mv")
    ELSE IF first_lc = <<"c","a","t">> THEN R(APPREST(<<"t","y","p","e">>, rest), "cat")
    ELSE IF first_lc = <<"l","e","s","s">> \/ first_lc = <<"m","o","r","e">> THEN R(APPREST(<<"m","o","r","e">>, rest), "less")
    ELSE IF first_lc = <<"h","e","a","d">> THEN head_rule(rest)
    ELSE IF first_lc = <<"t","a","i","l">> THEN tail_rule(rest)
    ELSE IF first_lc = <<"c","h","m","o","d">>
        THEN R(APPREST(<<"r","e","m"," ","c","h","m","o","d"," ","n","o","t"," ","s","u","p","p","o","r","t","e","d"," ","o","n"," ","W","i","n","d","o","w","s",";"," ","u","s","e"," ","i","c","a","c","l","s"," ","o","r"," ","p","o","w","e","r","s","h","e","l","l"," ","S","e","t","-","A","c","l">>, rest), "chmod")
    ELSE IF first_lc = <<"c","h","o","w","n">>
        THEN R(APPREST(<<"r","e","m"," ","c","h","o","w","n"," ","n","o","t"," ","s","u","p","p","o","r","t","e","d"," ","o","n"," ","W","i","n","d","o","w","s",";"," ","u","s","e"," ","i","c","a","c","l","s">>, rest), "chown")
    ELSE IF first_lc = <<"w","h","o","a","m","i">> THEN R(<<"w","h","o","a","m","i">>, "whoami")
    ELSE IF first_lc = <<"u","n","a","m","e">> THEN R(APPREST(<<"s","y","s","t","e","m","i","n","f","o">>, rest), "uname")
    ELSE IF first_lc = <<"h","o","s","t","n","a","m","e">> THEN R(<<"h","o","s","t","n","a","m","e">>, "hostname")
    ELSE IF first_lc = <<"d","a","t","e">> THEN R(<<"d","a","t","e"," ","/","t">>, "date")
    ELSE IF first_lc = <<"u","p","t","i","m","e">> THEN R(<<"n","e","t"," ","s","t","a","t","i","s","t","i","c","s"," ","w","o","r","k","s","t","a","t","i","o","n">>, "uptime")
    ELSE IF first_lc = <<"d","f">> THEN R(<<"w","m","i","c"," ","l","o","g","i","c","a","l","d","i","s","k"," ","g","e","t"," ","c","a","p","t","i","o","n",",","f","r","e","e","s","p","a","c","e",",","s","i","z","e">>, "df")
    ELSE IF first_lc = <<"d","u">> THEN
        IF Len(trim(rest)) # 0
        THEN R(<<"p","o","w","e","r","s","h","e","l","l"," ","-","C","o","m","m","a","n","d"," ","\"","(","G","e","t","-","C","h","i","l","d","I","t","e","m"," ","-","R","e","c","u","r","s","e"," ">> \o trim(rest)
               \o <<" ","|"," ","M","e","a","s","u","r","e","-","O","b","j","e","c","t"," ","-","P","r","o","p","e","r","t","y"," ","L","e","n","g","t","h"," ","-","S","u","m",")",".","S","u","m","\"">>, "du")
        ELSE R(<<"r","e","m"," ","d","u"," ","n","e","e","d","s"," ","d","i","r","e","c","t","o","r","y">>, "du")
    ELSE IF first_lc = <<"f","r","e","e">>
        THEN R(<<"s","y","s","t","e","m","i","n","f","o"," ","|"," ","f","i","n","d","s","t","r"," ","/","C",":","\"","T","o","t","a","l"," ","P","h","y","s","i","c","a","l"," ","M","e","m","o","r","y","\""," ","/","C",":","\"","A","v","a","i","l","a","b","l","e","\"">>, "free")
    ELSE IF first_lc = <<"t","o","p">> \/ first_lc = <<"h","t","o","p">> THEN R(<<"t","a","s","k","l","i","s","t">>, "top")
    ELSE IF first_lc = <<"p","s">> THEN
        IF has(rest, <<"a","u","x">>) THEN R(<<"t","a","s","k","l","i","s","t">>, "ps")
        ELSE R(APPREST(<<"t","a","s","k","l","i","s","t">>, rest), "ps")
    ELSE IF first_lc = <<"k","i","l","l">> THEN
        IF has(rest, <<"-","9">>)
        THEN R(<<"t","a","s","k","k","i","l","l"," ","/","P","I","D"," ">> \o trim(replace_first(rest, <<"-","9">>, <<>>)) \o <<" ","/","F">>, "kill")
        ELSE R(<<"t","a","s","k","k","i","l","l"," ","/","P","I","D"," ">> \o trim(rest), "kill")
    ELSE IF first_lc = <<"j","o","b","s">> \/ first_lc = <<"f","g">> \/ first_lc = <<"b","g">>
        THEN R(APPREST(<<"r","e","m"," ","j","o","b"," ","c","o","n","t","r","o","l"," ","n","o","t"," ","s","u","p","p","o","r","t","e","d"," ","o","n"," ","W","i","n","d","o","w","s",";"," ","u","s","e"," ","p","o","w","e","r","s","h","e","l","l"," ","b","a","c","k","g","r","o","u","n","d"," ","j","o","b","s"," ","o","r"," ","t","a","s","k"," ","m","a","n","a","g","e","r">>, rest), "jobs")
    ELSE IF first_lc = <<"p","i","n","g">> THEN R(APPREST(<<"p","i","n","g">>, rest), "ping")
    ELSE IF first_lc = <<"c","u","r","l">> THEN R(APPREST(<<"c","u","r","l">>, rest), "curl")
    ELSE IF first_lc = <<"w","g","e","t">> THEN R(APPREST(<<"c","u","r","l"," ","-","O">>, rest), "wget")
    ELSE IF first_lc = <<"i","f","c","o","n","f","i","g">> \/ (first_lc = <<"i","p">> /\ has(rest, <<"a","d","d","r">>))
        THEN R(<<"i","p","c","o","n","f","i","g"," ","/","a","l","l">>, "ifconfig")
    ELSE IF first_lc = <<"n","e","t","s","t","a","t">> THEN R(APPREST(<<"n","e","t","s","t","a","t"," ","-","a","n","o">>, rest), "netstat")
    ELSE IF first_lc = <<"s","s","h">> THEN R(APPREST(<<"s","s","h">>, rest), "ssh")
    ELSE IF first_lc = <<"s","c","p">> THEN R(APPREST(<<"s","c","p">>, rest), "scp")
    ELSE IF first_lc = <<"s","u","d","o">> THEN
        IF Len(trim(rest)) # 0 THEN R(trim(rest), "sudo")
        ELSE R(<<"r","e","m"," ","s","u","d","o"," ","w","i","t","h"," ","n","o"," ","c","o","m","m","a","n","d">>, "sudo")
    ELSE IF first_lc = <<"a","p","t">> \/ first_lc = <<"d","n","f">> \/ first_lc = <<"p","a","c","m","a","n">>
        THEN R(APPREST(<<"r","e","m"," ","P","a","c","k","a","g","e"," ","m","a","n","a","g","e","r"," ","c","o","m","m","a","n","d","s"," ","a","r","e"," ","n","o","t"," ","s","u","p","p","o","r","t","e","d"," ","o","n"," ","W","i","n","d","o","w","s",";"," ","c","o","n","s","i","d","e","r"," ","u","s","i","n","g"," ","W","S","L"," ","o","r"," ","e","q","u","i","v","a","l","e","n","t">>, rest), "apt")
    ELSE IF first_lc = <<"a","d","d","u","s","e","r">> \/ first_lc = <<"p","a","s","s","w","d">> \/ first_lc = <<"s","u">>
        THEN R(APPREST(<<"r","e","m"," ","U","s","e","r"," ","m","a","n","a","g","e","m","e","n","t"," ","m","u","s","t"," ","b","e"," ","d","o","n","e"," ","v","i","a"," ","C","o","n","t","r","o","l"," ","P","a","n","e","l"," ","o","r"," ","n","e","t"," ","u","s","e","r"," ","o","n"," ","W","i","n","d","o","w","s">>, rest), "adduser")
    ELSE IF first_lc = <<"w","h","o">> \/ first_lc = <<"i","d">> \/ first_lc = <<"g","r","o","u","p","s">>
        THEN R(APPREST(<<"w","h","o","a","m","i">>, rest), "who")
    ELSE IF first_lc = <<"t","a","r">> THEN R(APPREST(<<"t","a","r">>, rest), "tar")
    ELSE IF first_lc = <<"z","i","p">>
        THEN R((IF Len(rest) # 0 THEN CatSp(<<"p","o","w","e","r","s","h","e","l","l"," ","-","C","o","m","m","a","n","d"," ","\"","C","o","m","p","r","e","s","s","-","A","r","c","h","i","v","e"," ","-","P","a","t","h">>, rest)
                ELSE <<"p","o","w","e","r","s","h","e","l","l"," ","-","C","o","m","m","a","n","d"," ","\"","C","o","m","p","r","e","s","s","-","A","r","c","h","i","v","e"," ","-","P","a","t","h">>) \o <<"\"">>, "zip")
    ELSE IF first_lc = <<"u","n","z","i","p">>
        THEN R((IF Len(rest) # 0 THEN CatSp(<<"p","o","w","e","r","s","h","e","l","l"," ","-","C","o","m","m","a","n","d"," ","\"","E","x","p","a","n","d","-","A","r","c","h","i","v","e"," ","-","P","a","t","h">>, rest)
                ELSE <<"p","o","w","e","r","s","h","e","l","l"," ","-","C","o","m","m","a","n","d"," ","\"","E","x","p","a","n","d","-","A","r","c","h","i","v","e"," ","-","P","a","t","h">>) \o <<"\"">>, "unzip")
    ELSE IF first_lc = <<"h","i","s","t","o","r","y">> THEN R(<<"r","e","m"," ","h","i","s","t","o","r","y"," ","s","h","o","w","n"," ","b","y"," ","t","h","i","s"," ","t","e","r","m","i","n","a","l">>, "history")
    ELSE IF first_lc = <<"c","l","e","a","r">> THEN R(<<"c","l","s">>, "clear")
    ELSE IF first_lc = <<"!","!">> THEN R(<<"!","!">>, "bang")
    ELSE IF first_lc # <<>> /\ first_lc[1] = "!" THEN R(input, "bang")
    ELSE \* default fallback: try to run via bash on Windows
         fallback_posix_to_windows(input)

\* custard.c, Windows -> Linux mappings
custard_windows_to_posix(input, first_lc, rest) ==
    IF first_lc = <<"d","i","r">> THEN R(APPREST(<<"l","s">>, rest), "dir")
    ELSE IF first_lc = <<"t","y","p","e">> THEN R(APPREST(<<"c","a","t">>, rest), "type")
    ELSE IF first_lc = <<"c","o","p","y">> THEN R(APPREST(<<"c","p">>, rest), "copy")
    ELSE IF first_lc = <<"m","o","v","e">> THEN R(APPREST(<<"m","v">>, rest), "move")
    ELSE IF first_lc = <<"d","e","l">> \/ first_lc = <<"e","r","a","s","e">> THEN R(APPREST(<<"r","m">>, rest), "del")
    ELSE IF first_lc = <<"r","m","d","i","r">> THEN R(APPREST(<<"r","m"," ","-","r">>, rest), "rmdir")
    ELSE IF first_lc = <<"m","k","d","i","r">> THEN R(APPREST(<<"m","k","d","i","r">>, rest), "mkdir")
    ELSE IF first_lc = <<"c","l","s">> THEN R(<<"c","l","e","a","r">>, "cls")
    ELSE IF first_lc = <<"w","h","o","a","m","i">> THEN R(<<"w","h","o","a","m","i">>, "whoami")
    ELSE IF first_lc = <<"s","y","s","t","e","m","i","n","f","o">> THEN R(APPREST(<<"u","n","a","m","e"," ","-","a">>, rest), "systeminfo")
    ELSE IF first_lc = <<"h","o","s","t","n","a","m","e">> THEN R(<<"h","o","s","t","n","a","m","e">>, "hostname")
    ELSE IF first_lc = <<"d","a","t","e">> THEN R(<<"d","a","t","e">>, "date")
    ELSE IF first_lc = <<"n","e","t","s","t","a","t">> THEN R(APPREST(<<"n","e","t","s","t","a","t"," ","-","t","u","l","n","p">>, rest), "netstat")
    ELSE IF first_lc = <<"t","a","s","k","l","i","s","t">> THEN R(APPREST(<<"p","s"," ","a","u","x">>, rest), "tasklist")
    ELSE IF first_lc = <<"t","a","s","k","k","i","l","l">> THEN taskkill_rule(rest)
    ELSE IF first_lc = <<"i","p","c","o","n","f","i","g">> THEN R(APPREST(<<"i","f","c","o","n","f","i","g">>, rest), "ipconfig")
    ELSE IF first_lc = <<"p","i","n","g">> THEN R(APPREST(<<"p","i","n","g">>, rest), "ping")
    ELSE IF first_lc = <<"c","u","r","l">> THEN R(APPREST(<<"c","u","r","l">>, rest), "curl")
    ELSE IF first_lc = <<"s","s","h">> THEN R(APPREST(<<"s","s","h">>, rest), "ssh")
    ELSE IF first_lc = <<"s","c","p">> THEN R(APPREST(<<"s","c","p">>, rest), "scp")
    ELSE IF first_lc = <<"p","o","w","e","r","s","h","e","l","l">>
        THEN \* SETM(rest): rest is the format string of snprintf
             [out |-> rest, rule |-> "powershell", ub |-> has(rest, <<"%">>), tok |-> FALSE]
    ELSE IF first_lc = <<"w","m","i","c">> THEN R(APPREST(<<"d","f"," ","-","h">>, rest), "wmic")
    ELSE IF first_lc = <<"t","a","r">> \/ first_lc = <<"C","o","m","p","r","e","s","s","-","A","r","c","h","i","v","e">>
        THEN R(APPREST(<<"t","a","r">>, rest), "tar")
    ELSE IF first_lc = <<"r","e","m">> THEN R(<<"t","r","u","e">>, "rem")
    ELSE IF first_lc = <<"h","i","s","t","o","r","y">> THEN R(<<"h","i","s","t","o","r","y">>, "history")
    ELSE IF first_lc = <<"s","t","a","r","t">> THEN R(APPREST(<<"x","d","g","-","o","p","e","n">>, rest), "start")
    ELSE \* fallback: return original
         fallback_windows_to_posix(input)

\* the verb buffers overrun (split_first, lc_copy) make the result undefined too
with_ovf(r, ovf) == [r EXCEPT !.ub = r.ub \/ ovf]

\* custard.c, map_command past the identity test
custard_table(input, first_lc, rest, src, hst) ==
    IF src = 0 /\ hst = 1 THEN custard_posix_to_windows(input, first_lc, rest)
    ELSE IF src = 1 /\ hst = 0 THEN custard_windows_to_posix(input, first_lc, rest)
    ELSE R(input, "default")

custard_cross(input, src, hst) ==
    with_ovf(custard_table(input, lc_copy(split_first(input).first),
                           split_first(input).rest, src, hst),
             split_first(input).ovf)

\* map_command deciding the direction from the source dialect alone
map_command_custard_noidentity(input, src, hst) == custard_cross(input, src, 1 - src)

\* custard.c, map_command
map_command_custard(input, src, hst) ==
    IF src = hst THEN R(input, "identity") ELSE custard_cross(input, src, hst)


\* cust.c, map_command past split_first: the two tables, guarded by the direction,
\* then return strdup(input)
cust_table(input, first_lc, rest, src, hst) ==
    IF src = 0 /\ hst = 1 /\ first_lc = <<"l","s">> THEN R(APPREST(<<"d","i","r">>, rest), "ls")
    ELSE IF src = 0 /\ hst = 1 /\ first_lc = <<"p","w","d">> THEN R(<<"c","d">>, "pwd")
    ELSE IF src = 0 /\ hst = 1 /\ first_lc = <<"r","m">> THEN R(APPREST(<<"d","e","l">>, rest), "rm")
    ELSE IF src = 0 /\ hst = 1 /\ first_lc = <<"m","k","d","i","r">> THEN R(APPREST(<<"m","k","d","i","r">>, rest), "mkdir")
    ELSE IF src = 0 /\ hst = 1 /\ first_lc = <<"c","p">> THEN R(APPREST(<<"c","o","p","y">>, rest), "cp")
    ELSE IF src = 0 /\ hst = 1 /\ first_lc = <<"m","v">> THEN R(APPREST(<<"m","o","v","e">>, rest), "mv")
    ELSE IF src = 0 /\ hst = 1 /\ first_lc = <<"c","a","t">> THEN R(APPREST(<<"t","y","p","e">>, rest), "cat")
    ELSE IF src = 0 /\ hst = 1 /\ first_lc = <<"c","l","e","a","r">> THEN R(<<"c","l","s">>, "clear")
    ELSE IF src = 0 /\ hst = 1 /\ first_lc = <<"t","o","u","c","h">> THEN R(<<"t","y","p","e"," ","n","u","l"," ",">"," ">> \o rest, "touch")
    ELSE IF src = 1 /\ hst = 0 /\ first_lc = <<"d","i","r">> THEN R(APPREST(<<"l","s">>, rest), "dir")
    ELSE IF src = 1 /\ hst = 0 /\ first_lc = <<"d","e","l">> THEN R(APPREST(<<"r","m">>, rest), "del")
    ELSE IF src = 1 /\ hst = 0 /\ first_lc = <<"c","o","p","y">> THEN R(APPREST(<<"c","p">>, rest), "copy")
    ELSE IF src = 1 /\ hst = 0 /\ first_lc = <<"m","o","v","e">> THEN R(APPREST(<<"m","v">>, rest), "move")
    ELSE IF src = 1 /\ hst = 0 /\ first_lc = <<"t","y","p","e">> THEN R(APPREST(<<"c","a","t">>, rest), "type")
    ELSE IF src = 1 /\ hst = 0 /\ first_lc = <<"c","l","s">> THEN R(<<"c","l","e","a","r">>, "cls")
    ELSE R(input, IF src = hst THEN "identity" ELSE "fallback")

\* cust.c, map_command: no identity test
map_command_cust(input, src, hst) ==
    with_ovf(cust_table(input, lc_copy(split_first(input).first),
                        split_first(input).rest, src, hst),
             split_first(input).ovf)

\* part_000, gemini_ai_answer: snprintf into char ai_resp[MAX_LINE]
gemini_ai_answer(query, os_context) ==
    Trunc(<<"G","e","m","i","n","i"," ","A","I",":"," ","I"," ","d","o","n","'","t"," ","k","n","o","w"," ","'">> \o query \o <<"'"," ","o","n"," ">> \o os_context
          \o <<"."," ","S","u","g","g","e","s","t"," ","c","h","e","c","k","i","n","g"," ","d","o","c","u","m","e","n","t","a","t","i","o","n"," ","o","r"," ","O","S","-","s","p","e","c","i","f","i","c"," ","c","o","m","m","a","n","d",".">>, MAX_LINE - 1)

\* part_000, map_command past split_first
part_table(input, first_lc, rest, src, hst) ==
    IF src = 0 /\ hst = 1 THEN
        IF first_lc = <<"l","s">> THEN R(APPREST(<<"d","i","r">>, rest), "ls")
        ELSE IF first_lc = <<"p","w","d">> THEN R(<<"c","d">>, "pwd")
        ELSE IF first_lc = <<"c","a","t">> THEN R(APPREST(<<"t","y","p","e">>, rest), "cat")
        ELSE IF first_lc = <<"r","m">> THEN R(APPREST(<<"d","e","l">>, rest), "rm")
        ELSE R(gemini_ai_answer(input, <<"W","i","n","d","o","w","s">>), "fallback")
    ELSE
        IF first_lc = <<"d","i","r">> THEN R(APPREST(<<"l","s">>, rest), "dir")
        ELSE IF first_lc = <<"t","y","p","e">> THEN R(APPREST(<<"c","a","t">>, rest), "type")
        ELSE IF first_lc = <<"d","e","l">> THEN R(APPREST(<<"r","m">>, rest), "del")
        ELSE R(gemini_ai_answer(input, <<"L","i","n","u","x","/","m","a","c","O","S","/","i","O","S">>), "fallback")

\* part_000, map_command
map_command_part(input, src, hst) ==
    IF src = hst THEN R(input, "identity")
    ELSE with_ovf(part_table(input, lc_copy(split_first(input).first),
                             split_first(input).rest, src, hst),
                  split_first(input).ovf)

\* map_command of the program that runs
map_command(v, input, src, hst) ==
    IF v = "custard" THEN map_command_custard(input, src, hst)
    ELSE IF v = "cust" THEN map_command_cust(input, src, hst)
    ELSE map_command_part(input, src, hst)

----------------------------------------------------------------------------
(* Built-in dispatcher and pipeline translator *)

\* the dispatcher treating exit and quit as one more handled built-in that returns
handle_builtin_pipeline_returns(cmd) ==
    LET first_lc == lc_copy(split_first(cmd).first)
    IN  IF first_lc = <<"h","e","l","p">> \/ first_lc = <<"e","x","i","t">> \/ first_lc = <<"q","u","i","t">> THEN "help"
        ELSE IF first_lc = <<"h","i","s","t","o","r","y">> THEN "history"
        ELSE IF first_lc = <<"c","l","e","a","r">> THEN "clear"
        ELSE "none"

\* handle_builtin_pipeline: which built-in the stage is ("none": not handled)
handle_builtin_pipeline(cmd) ==
    LET first_lc == lc_copy(split_first(cmd).first)
    IN  IF first_lc = <<"h","e","l","p">> THEN "help"
        ELSE IF first_lc = <<"e","x","i","t">> \/ first_lc = <<"q","u","i","t">> THEN "exit"
        ELSE IF first_lc = <<"h","i","s","t","o","r","y">> THEN "history"
        ELSE IF first_lc = <<"c","l","e","a","r">> THEN "clear"
        ELSE "none"

BUF_SIZE == 2 * MAX_LINE

\* strncat(buf, s, sizeof(buf) - strlen(buf) - 1)
strncat_buf(buf, s) == Trunc(buf \o s, BUF_SIZE - 1)

NoStage == [buf |-> <<>>, first |-> 1, exited |-> FALSE, effects |-> <<>>,
            stages |-> <<>>, parts |-> <<>>, rules |-> <<>>, ub |-> FALSE]

\* translate_pipeline, the stage appended to buf: m is what map_command returned
append_stage(acc, token, m, sfo, hst) ==
    [acc EXCEPT
        !.buf = strncat_buf(IF acc.first = 0 THEN strncat_buf(acc.buf, <<" ","|"," ">>)
                            ELSE acc.buf, m.out),
        !.first = 0,
        !.stages = Append(acc.stages, token),
        !.parts = Append(acc.parts, m.out),
        !.rules = Append(acc.rules, m.rule),
        !.ub = acc.ub \/ sfo \/ m.ub \/ (hst = 1 /\ m.tok)]

\* the loop of translate_pipeline over the tokens strtok returns, acc being the
\* state reached so far: buf and first as in the code; exited once a stage called
\* exit(0); effects, the built-ins run; stages/parts/rules, the stages mapped, what
\* map_command returned for each and by which rule; ub, undefined behaviour met.
\* pipeline_stage is the loop body for one token: b is what handle_builtin_pipeline
\* did, sfo whether its split_first overran, m what map_command returns
RECURSIVE pipeline_loop(_, _, _, _, _)
pipeline_stage(v, tokens, src, hst, acc, token, b, sfo, m) ==
    IF Len(token) = 0 THEN pipeline_loop(v, tokens, src, hst, acc)
    ELSE IF b = "exit"
    THEN [acc EXCEPT !.exited = TRUE, !.ub = acc.ub \/ sfo]
    ELSE IF b # "none"
    THEN pipeline_loop(v, tokens, src, hst,
                       [acc EXCEPT !.effects = Append(acc.effects, b),
                                   !.ub = acc.ub \/ sfo])
    ELSE IF hst = 1 /\ m.tok
    THEN \* on Windows STRTOK is strtok: map_command's own strtok loop left its
         \* state at the end of a dead local buffer
         append_stage(acc, token, m, sfo, hst)
    ELSE pipeline_loop(v, tokens, src, hst, append_stage(acc, token, m, sfo, hst))

pipeline_loop(v, tokens, src, hst, acc) ==
    IF tokens = <<>> THEN acc
    ELSE pipeline_stage(v, Tail(tokens), src, hst, acc, trim(Head(tokens)),
                        handle_builtin_pipeline(trim(Head(tokens))),
                        split_first(trim(Head(tokens))).ovf,
                        map_command(v, trim(Head(tokens)), src, hst))

\* translate_pipeline: strtok on "|", then the loop
translate_pipeline(v, ln, src, hst) ==
    pipeline_loop(v, strtok_all(ln, {"|"}), src, hst, NoStage)


----------------------------------------------------------------------------
(* Session loop: one iteration of main's while(1), for the line fgets returned.
   The result holds the values the iteration leaves: pc ("loop": continue,
   "done": break then Goodbye and return 0, "exited": exit(0) inside
   handle_builtin_pipeline), the history store, main's line buffer, the string
   translate_pipeline returned, the command lines handed to system() to execute
   the translation, the messages printed and the screen clears ("system_clear"),
   and info: the expansion, the pipeline record and the history listing printed. *)

CtrlPhrases == {<<"C","T","R","L"," ","+"," ","C">>, <<"C","T","R","L","+","C">>, <<"C","T","R","L"," ","+"," ","D">>, <<"C","T","R","L","+","D">>, <<"C","T","R","L"," ","+"," ","Z">>, <<"C","T","R","L","+","Z">>}

NoInfo == [kind |-> "main", raw |-> <<>>, expanded |-> NULL, t |-> NoStage, shown |-> <<>>,
           added |-> FALSE, ub |-> FALSE]

Continue(h, c, ln, o, info) ==
    [pc |-> "loop", history |-> h, hist_count |-> c, line |-> ln,
     translated |-> <<>>, executed |-> <<>>, out |-> o, info |-> info]

IsNote(t) == IsPrefix(<<"r","e","m"," ">>, t) \/ IsPrefix(<<"t","r","u","e">>, t) \/ IsPrefix(<<"e","c","h","o"," ">>, t)

\* custard.c, the execution of the translated command after "[Translated ->]"
CMDLINE_SIZE == 3 * MAX_LINE
RECURSIVE StripSpaces(_)
StripSpaces(s) == IF s # <<>> /\ Head(s) = " " THEN StripSpaces(Tail(s)) ELSE s
cmd_c(s) == Trunc(<<"c","m","d"," ","/","C"," ","\"">> \o s \o <<"\"">>, CMDLINE_SIZE - 1)
run_translated(t, hst) ==
    IF Len(t) = 0 THEN <<>>
    ELSE IF hst = 1
    THEN IF strchr(t, "|") # 0
         THEN LET toks == strtok_all(Trunc(t, CMDLINE_SIZE - 1), {"|"})
              IN  [i \in 1..Len(toks) |-> cmd_c(StripSpaces(toks[i]))]
         ELSE <<cmd_c(t)>>
    ELSE <<t>>


\* what one iteration leaves, a being what add_history returned
Step(p, a, ln, t, ex, o, info) ==
    [pc |-> p, history |-> a.history, hist_count |-> a.hist_count, line |-> ln,
     translated |-> t, executed |-> ex, out |-> o, info |-> info]

Translated(info, t) == [info EXCEPT !.t = t, !.added = TRUE, !.ub = t.ub]

with_split_ovf(r, ovf) == [r EXCEPT !.info.ub = r.info.ub \/ ovf]

\* custard.c main, past translate_pipeline: a is what add_history(line) left, t what
\* translate_pipeline(line) returned and did
custard_run(hst, a, t, ln, pre, info) ==
    IF t.exited
    THEN Step("exited", a, ln, <<>>, <<>>, pre \o t.effects, Translated(info, t))
    ELSE IF IsNote(t.buf)
    THEN Step("loop", a, ln, t.buf, <<>>, pre \o t.effects \o <<"note">>,
              Translated(info, t))
    ELSE Step("loop", a, ln, t.buf, run_translated(t.buf, hst),
              pre \o t.effects \o <<"translated">>,
              Translated(info, t))

\* custard.c main, from add_history(line) to the end of the iteration
custard_translate_and_run(hst, src, h, c, ln, pre, info) ==
    custard_run(hst, add_history(h, c, ln), translate_pipeline("custard", ln, src, hst),
                ln, pre, info)

\* custard.c main, one iteration; e is what expand_bang returned (when it is called)
main_custard(hst, src, h, c, raw, e) ==
    LET ln0 == trim(raw)
        bang == ln0 # <<>> /\ ln0[1] = "!"
        ln  == IF bang THEN Trunc(e, MAX_LINE - 1) ELSE ln0
        pre == IF bang THEN <<"expanded">> ELSE <<>>
        info == [NoInfo EXCEPT !.expanded = IF bang THEN e ELSE NULL]
        first_lc == lc_copy(split_first(ln).first)
        a   == add_history(h, c, ln)
    IN  IF Len(ln0) = 0 THEN Continue(h, c, ln0, <<>>, NoInfo)
        ELSE IF ln0 = <<"h","e","l","p">>
        THEN Step("loop", add_history(h, c, ln0), ln0, <<>>, <<>>, <<"help">>,
                  [NoInfo EXCEPT !.added = TRUE])
        ELSE IF ln0 \in CtrlPhrases THEN Continue(h, c, ln0, <<"ctrl_note">>, NoInfo)
        ELSE IF bang /\ Len(e) = 0
        THEN Continue(h, c, ln0, <<"no_such_history">>, info)
        ELSE IF first_lc = <<"e","x","i","t">> \/ first_lc = <<"q","u","i","t">>
        THEN [pc |-> "done", history |-> h, hist_count |-> c, line |-> ln,
              translated |-> <<>>, executed |-> <<>>,
              out |-> pre \o <<"goodbye">>,
              info |-> [info EXCEPT !.ub = split_first(ln).ovf]]
        ELSE IF first_lc = <<"h","i","s","t","o","r","y">>
        THEN Continue(a.history, a.hist_count, ln, pre \o <<"history">>,
                      [info EXCEPT !.shown = print_history(h, c), !.added = TRUE,
                                   !.ub = split_first(ln).ovf])
        ELSE IF first_lc = <<"c","l","e","a","r">>
        THEN Continue(a.history, a.hist_count, ln, pre \o <<"system_clear">>,
                      [info EXCEPT !.added = TRUE, !.ub = split_first(ln).ovf])
        ELSE with_split_ovf(custard_translate_and_run(hst, src, h, c, ln, pre, info),
                            split_first(ln).ovf)

\* cust.c main, past translate_pipeline
cust_run(a, t, ln, info) ==
    IF t.exited
    THEN Step("exited", a, ln, <<>>, <<>>, t.effects, Translated(info, t))
    ELSE IF IsPrefix(<<"r","e","m"," ">>, t.buf) \/ IsPrefix(<<"t","r","u","e">>, t.buf)
    THEN Step("loop", a, ln, t.buf, <<>>, t.effects \o <<"note">>, Translated(info, t))
    ELSE Step("loop", a, ln, t.buf, <<t.buf>>,
              t.effects \o <<"translated">>,
              Translated(info, t))

\* cust.c main, one iteration
main_cust(hst, src, h, c, raw, e) ==
    LET ln0 == trim(raw)
        bang == ln0 # <<>> /\ ln0[1] = "!"
        ln  == IF bang /\ Len(e) # 0 THEN Trunc(e, MAX_LINE - 1) ELSE ln0
    IN  IF Len(ln0) = 0 THEN Continue(h, c, ln0, <<>>, NoInfo)
        ELSE cust_run(add_history(h, c, ln), translate_pipeline("cust", ln, src, hst),
                      ln, [NoInfo EXCEPT !.expanded = IF bang THEN e ELSE NULL])

\* part_000 main, past translate_pipeline
part_run(a, t, ln, pre, info) ==
    IF t.exited
    THEN Step("exited", a, ln, <<>>, <<>>, pre \o t.effects, Translated(info, t))
    ELSE Step("loop", a, ln, t.buf, IF Len(t.buf) > 0 THEN <<t.buf>> ELSE <<>>,
              pre \o t.effects \o <<"translated">>,
              Translated(info, t))

\* part_000 main, one iteration
main_part(hst, src, h, c, raw, e) ==
    LET ln0 == trim(raw)
        bang == ln0 # <<>> /\ ln0[1] = "!"
        ln  == IF bang /\ Len(e) # 0 THEN Trunc(e, MAX_LINE - 1) ELSE ln0
        pre == IF bang /\ Len(e) # 0 THEN <<"expanded">> ELSE <<>>
    IN  IF Len(ln0) = 0 THEN Continue(h, c, ln0, <<>>, NoInfo)
        ELSE part_run(add_history(h, c, ln), translate_pipeline("part", ln, src, hst),
                      ln, pre, [NoInfo EXCEPT !.expanded = IF bang THEN e ELSE NULL])

\* main's loop body of the program that runs
main_iteration(v, hst, src, h, c, raw, e) ==
    IF v = "custard" THEN main_custard(hst, src, h, c, raw, e)
    ELSE IF v = "cust" THEN main_cust(hst, src, h, c, raw, e)
    ELSE main_part(hst, src, h, c, raw, e)

\* the rc == -1 branch after each system(): "Failed to run command." in custard.c and
\* part_000, call_gemini_api in cust.c; r is what the iteration left
system_failed(v, r, fail) ==
    IF fail
    THEN [r EXCEPT !.out = r.out \o [i \in 1..Len(r.executed) |->
                                        IF v = "cust" THEN "gemini" ELSE "failed"]]
    ELSE r


----------------------------------------------------------------------------
(* Inputs of the model *)

\* answers to the dialect prompt
ChoiceLines == {<<"1">>, <<"2">>, <<" ","2"," ">>, <<"x">>, <<>>}

\* lines typed at the session prompt
SessionLines == {
    <<"l","s">>, <<"r","e","m"," ","a"," ","|"," ","d","i","r">>, <<"l","s"," ","|"," ","e","x","i","t">>, <<"Q","U","I","T"," ","n","o","w">>,
    <<"C","T","R","L","+","C">>, <<"l","s"," ","|"," ","c","l","e","a","r"," ","|"," ","e","x","i","t">>, <<"!","1">>, <<"!","!">>, <<" "," ">>, <<"h","e","a","d"," ","f">> }

\* a verb that fills first[MAX_TOK] and leaves no room for its terminator
LongVerb == [i \in 1..MAX_TOK |-> "a"]

\* stage texts given to map_command
StageTexts == {
    <<"l","s">>, <<"l","s"," ","-","l","a">>, <<"L","S"," ","-","l">>, <<"l","s"," ","-","a">>, <<"p","w","d">>, <<"r","m"," ","-","r","f"," ","d","i","r">>, <<"r","m"," ","f","i","l","e">>,
    <<"t","o","u","c","h">>, <<"t","o","u","c","h"," ","f">>, <<"g","r","e","p"," ","f","o","o">>, <<"c","p"," ","a"," ","b">>, <<"f","r","e","e">>, <<"d","u"," ","d">>,
    <<"h","e","a","d"," ","-","n"," ","2"," ","f">>, <<"t","a","i","l"," ","-","n"," ","2"," ","f">>, <<"t","a","i","l"," ","-","f"," ","f">>, <<"k","i","l","l"," ","-","9"," ","7">>, <<"i","p"," ","l","i","n","k">>,
    <<"i","p"," ","a","d","d","r">>, <<"s","u","d","o"," ","l","s">>, <<"e","c","h","o"," ","h","i">>, <<"m","k","d","i","r"," ","d">>, <<"c","l","e","a","r">>,
    <<"d","i","r">>, <<"D","I","R"," ","/","a">>, <<"d","e","l"," ","m","y","f","i","l","e",".","t","x","t">>, <<"e","r","a","s","e"," ","f">>, <<"c","o","p","y"," ","a"," ","b">>, <<"m","o","v","e"," ","a"," ","b">>,
    <<"t","y","p","e"," ","f">>, <<"c","l","s">>, <<"r","e","m"," ","t","h","i","s"," ","i","s"," ","a"," ","n","o","t","e">>, <<"t","a","s","k","k","i","l","l"," ","/","P","I","D"," ","1","2"," ","/","F">>,
    <<"T","a","s","k","k","i","l","l"," ","/","F">>, <<"p","o","w","e","r","s","h","e","l","l">>, <<"p","o","w","e","r","s","h","e","l","l"," ","-","C","o","m","m","a","n","d"," ","x">>,
    <<"C","o","m","p","r","e","s","s","-","A","r","c","h","i","v","e"," ","a">>, <<"f","i","n","d","s","t","r"," ","x">>, <<"x","c","o","p","y"," ","a"," ","b">>, <<"\"","d","i","r","\""," ","x">>, <<"s","t","a","r","t"," ","f">>,
    <<"c","o","m","p","r","e","s","s","-","a","r","c","h","i","v","e"," ","a">>, <<"T","A","R"," ","a">>, <<"t","a","r"," ","a">>, <<"D","e","l"," ","m","y","f","i","l","e",".","t","x","t">>, <<"c","l","s"," ","/","?">>, <<"C","L","S">>,
    <<"e","r","a","s","e">>, <<"M","K","D","I","R"," ","d">>, <<"r","m"," ","-","r"," ","d","i","r">>, <<"r","m"," ","-","f"," ","m","y","-","r","e","p","o","r","t",".","t","x","t">>, <<"r","m"," ","m","y","-","r","e","p","o","r","t",".","t","x","t">>,
    <<"r","m"," ","-","r","f">>, <<"\"","\"">>, <<"\"">>, <<"\"","\""," ","x">>, <<"'","a"," ","b","'"," ","c">>,
    LongVerb \o <<" ","x">> }

\* lines given to translate_pipeline
PipeLines == {
    <<"l","s"," ","-","l","a"," ","|"," ","g","r","e","p"," ","f","o","o">>, <<"f","r","e","e">>, <<"f","r","e","e"," ","|"," ","g","r","e","p"," ","M">>, <<"l","s"," ","|"," ","|"," ","p","w","d">>, <<"l","s","|","|","p","w","d">>,
    <<" ","|"," ">>, <<"h","i","s","t","o","r","y"," ","|"," ","l","s">>, <<"h","e","l","p"," ","|"," ","e","x","i","t"," ","|"," ","l","s">>, <<"l","s"," ","|"," ","e","x","i","t">>, <<"r","e","m"," ","a"," ","|"," ","d","i","r">>,
    <<"t","o","u","c","h"," ","|"," ","l","s">>, <<"p","o","w","e","r","s","h","e","l","l"," ","|"," ","d","i","r">>, <<"p","o","w","e","r","s","h","e","l","l">>, <<"t","a","i","l"," ","-","n"," ","2"," ","f"," ","|"," ","g","r","e","p"," ","x">>,
    <<"c","l","e","a","r">>, <<"l","s"," ","|"," ","c","l","e","a","r"," ","|"," ","e","x","i","t">>, <<"d","u"," ","d">>, <<"d","i","r">>, <<"d","e","l"," ","a","|","t","y","p","e"," ","b","|","f","i","n","d","s","t","r"," ","c">>,
    <<"g","r","e","p"," ","a"," ","|"," ","s","o","r","t"," ","|"," ","u","n","i","q">>, <<"l","s"," ","-","l"," ","-","a"," ","|"," ","g","r","e","p"," ","f","o","o">>, <<"l","s"," ","-","a","l"," ","|"," ","g","r","e","p"," ","f","o","o">>,
    <<"l","s"," ","-","l"," ","|"," ","g","r","e","p"," ","f","o","o">>, <<"p","w","d"," ","|"," ","t","a","i","l"," ","-","n"," ","2"," ","f"," ","|"," ","c","a","t"," ","g">>, <<"c","a","t"," ","f"," ","|"," ","h","e","l","p"," ","|"," ","s","o","r","t">> }

\* lines typed as the first line of a session
IterLines == {
    <<"h","e","l","p"," ","|"," ","h","i","s","t","o","r","y">>, <<"h","i","s","t","o","r","y">>, <<"c","l","e","a","r"," ","|"," ","h","e","l","p">>, <<" ","|"," ">>, <<"h","e","l","p">>, <<"p","o","w","e","r","s","h","e","l","l">>,
    <<"r","e","m"," ","t","h","i","s"," ","i","s"," ","a"," ","n","o","t","e">>, <<"R","E","M"," ","x">>, <<"r","e","m">>, <<"r","e","m"," ","a"," ","|"," ","d","i","r">>,
    <<"t","o","u","c","h">>, <<"t","o","u","c","h"," ","|"," ","l","s">>, <<"l","s"," ","|"," ","t","o","u","c","h">>, <<"l","s"," ","|"," ","t","o","u","c","h"," ","|"," ","p","w","d">>, <<"t","o","u","c","h"," ","f">>,
    <<"l","s">>, <<"d","i","r">>, <<"d","e","l"," ","m","y","f","i","l","e",".","t","x","t">>, <<"e","c","h","o"," ","h","i">>, <<"t","r","u","e">>, <<"g","r","e","p"," ","f","o","o">> }

\* lines given to add_history, and commands given to expand_bang
HistLines == {<<"l","s"," ","-","l">>, <<"p","w","d">>, <<>>, NULL}
BangCmds == {<<"!","!">>, <<"!","1">>, <<"!","2">>, <<"!","3">>, <<"!","0">>, <<"!","5">>, <<"!","4","2","9","4","9","6","7","2","9","7">>,
             <<"!","2","x">>, <<"!","x">>, <<"l","s">>}

----------------------------------------------------------------------------
(* The session: main *)

NoRes == [kind |-> "none"]

Init ==
    /\ variant \in Variants
    /\ host \in {0, 1}
    /\ source_is_windows = -1
    /\ pc = "choose"
    /\ history = EmptyHistory
    /\ hist_count = 0
    /\ recorded = <<>>
    /\ line = <<>>
    /\ translated = <<>>
    /\ executed = <<>>
    /\ out = <<>>
    /\ eof = FALSE
    /\ res = NoRes

\* main's dialect loop, one iteration in which fgets returns the line c
ChooseDialect ==
    /\ pc = "choose"
    /\ ~eof
    /\ \E c \in ChoiceLines :
        LET choice == trim(c)
            first  == IF choice = <<>> THEN "" ELSE choice[1]
        IN  /\ source_is_windows' = IF first = "1" THEN 1 ELSE IF first = "2" THEN 0 ELSE -1
            /\ pc' = IF first \in {"1", "2"} THEN "loop" ELSE "choose"
            /\ out' = IF first \in {"1", "2"} \/ variant = "cust" THEN <<>>
                      ELSE <<"invalid_choice">>
    /\ UNCHANGED <<variant, host, history, hist_count, recorded, line, translated,
                   executed, eof, res>>

\* main's dialect loop, one iteration in which fgets returns NULL: continue
ChooseEof ==
    /\ pc = "choose"
    /\ eof' = TRUE
    /\ out' = IF variant = "custard" THEN <<"no_input">> ELSE <<>>
    /\ UNCHANGED <<variant, host, source_is_windows, pc, history, hist_count, recorded,
                   line, translated, executed, res>>

\* the state one iteration r of the command loop leaves, raw being the line read; crash: undefined behaviour
\* met in the iteration ended the process
Leave(r, raw, crash) ==
    /\ crash => r.info.ub
    /\ pc' = IF crash THEN "crashed" ELSE r.pc
    /\ history' = r.history
    /\ hist_count' = r.hist_count
    /\ line' = r.line
    /\ translated' = IF crash THEN <<>> ELSE r.translated
    /\ executed' = IF crash THEN <<>> ELSE r.executed
    /\ out' = IF crash THEN <<>> ELSE r.out
    /\ res' = [r.info EXCEPT !.kind = "main", !.raw = trim(raw)]

\* main's command loop, one iteration in which fgets returns the line raw
ReadLine(raw) ==
    /\ pc = "loop"
    /\ ~eof
    /\ \E e \in (IF trim(raw) # <<>> /\ trim(raw)[1] = "!"
                 THEN expand_bang(trim(raw), history, hist_count) ELSE {trim(raw)}) :
        \E r \in {main_iteration(variant, host, source_is_windows, history, hist_count,
                                 raw, e)} :
            \E fail \in BOOLEAN, crash \in BOOLEAN :
                Leave(system_failed(variant, r, fail), raw, crash)
    /\ UNCHANGED <<variant, host, source_is_windows, recorded, eof>>

\* main's command loop, the iteration in which fgets returns NULL: break, Goodbye
ReadEof ==
    /\ pc = "loop"
    /\ eof' = TRUE
    /\ pc' = "done"
    /\ out' = <<"goodbye">>
    /\ executed' = <<>>
    /\ translated' = <<>>
    /\ res' = NoRes
    /\ UNCHANGED <<variant, host, source_is_windows, history, hist_count, recorded, line>>

Next ==
    \/ ChooseDialect
    \/ ChooseEof
    \/ \E raw \in SessionLines : ReadLine(raw)
    \/ ReadEof

Spec == Init /\ [][Next]_vars

----------------------------------------------------------------------------
(* map_command applied to one stage text, in every variant and direction *)

InitMap ==
    /\ variant \in Variants
    /\ host \in {0, 1}
    /\ source_is_windows \in {0, 1}
    /\ pc = "map"
    /\ history = EmptyHistory
    /\ hist_count = 0
    /\ recorded = <<>>
    /\ line \in StageTexts
    /\ translated = <<>>
    /\ executed = <<>>
    /\ out = <<>>
    /\ eof = FALSE
    /\ res = NoRes

\* the result m of map_command is returned, or the undefined behaviour met in
\* computing it ended the process
Returned(m, crash) ==
    /\ crash => m.ub
    /\ pc' = IF crash THEN "crashed" ELSE "mapped"
    /\ res' = IF crash THEN [kind |-> "map", ub |-> TRUE]
              ELSE [kind |-> "map", ub |-> m.ub, m |-> m, sf |-> split_first(line)]

ApplyMap ==
    /\ pc = "map"
    /\ \E crash \in BOOLEAN :
        Returned(map_command(variant, line, source_is_windows, host), crash)
    /\ UNCHANGED <<variant, host, source_is_windows, history, hist_count, recorded,
                   line, translated, executed, out, eof>>

NextMap == ApplyMap

SpecMap == InitMap /\ [][NextMap]_vars

----------------------------------------------------------------------------
(* translate_pipeline applied to one line, in every variant and direction *)

InitPipe ==
    /\ variant \in Variants
    /\ host \in {0, 1}
    /\ source_is_windows \in {0, 1}
    /\ pc = "pipe"
    /\ history = EmptyHistory
    /\ hist_count = 0
    /\ recorded = <<>>
    /\ line \in PipeLines
    /\ translated = <<>>
    /\ executed = <<>>
    /\ out = <<>>
    /\ eof = FALSE
    /\ res = NoRes

\* translate_pipeline returns what t holds, or a stage called exit(0), or the
\* undefined behaviour met on the way ended the process
Piped(t, crash) ==
    /\ crash => t.ub
    /\ pc' = IF crash THEN "crashed" ELSE IF t.exited THEN "exited" ELSE "piped"
    /\ res' = [kind |-> "pipe", t |-> t]
    /\ translated' = IF crash \/ t.exited THEN <<>> ELSE t.buf

ApplyPipe ==
    /\ pc = "pipe"
    /\ \E crash \in BOOLEAN :
        Piped(translate_pipeline(variant, line, source_is_windows, host), crash)
    /\ UNCHANGED <<variant, host, source_is_windows, history, hist_count, recorded,
                   line, executed, out, eof>>

NextPipe == ApplyPipe

SpecPipe == InitPipe /\ [][NextPipe]_vars

----------------------------------------------------------------------------
(* The history store: add_history and expand_bang applied in any order *)

InitHist ==
    /\ variant = "custard"
    /\ host = 0
    /\ source_is_windows = 0
    /\ pc = "hist"
    /\ history = EmptyHistory
    /\ hist_count = 0
    /\ recorded = <<>>
    /\ line = <<>>
    /\ translated = <<>>
    /\ executed = <<>>
    /\ out = <<>>
    /\ eof = FALSE
    /\ res = NoRes

Record ==
    /\ pc = "hist"
    /\ Len(recorded) < MaxRecorded
    /\ \E cmd \in HistLines :
        LET a == add_history(history, hist_count, cmd)
        IN  /\ history' = a.history
            /\ hist_count' = a.hist_count
            /\ recorded' = IF cmd = NULL \/ Len(cmd) = 0 THEN recorded ELSE Append(recorded, cmd)
            /\ line' = cmd
            /\ res' = [kind |-> "record", before |-> history, count |-> hist_count]
    /\ UNCHANGED <<variant, host, source_is_windows, pc, translated, executed, out, eof>>

Expand ==
    /\ pc = "hist"
    /\ \E cmd \in BangCmds :
        \E e \in expand_bang(cmd, history, hist_count) :
            /\ line' = cmd
            /\ res' = [kind |-> "bang", e |-> e]
    /\ UNCHANGED <<variant, host, source_is_windows, pc, history, hist_count, recorded,
                   translated, executed, out, eof>>

\* the history built-in: print_history lists the store
Show ==
    /\ pc = "hist"
    /\ res' = [kind |-> "shown", shown |-> print_history(history, hist_count)]
    /\ UNCHANGED <<variant, host, source_is_windows, pc, history, hist_count, recorded,
                   line, translated, executed, out, eof>>

NextHist == Record \/ Expand \/ Show

SpecHist == InitHist /\ [][NextHist]_vars

----------------------------------------------------------------------------
(* The first iteration of the command loop, in every variant and direction *)

InitIter ==
    /\ variant \in Variants
    /\ host \in {0, 1}
    /\ source_is_windows \in {0, 1}
    /\ pc = "loop"
    /\ history = EmptyHistory
    /\ hist_count = 0
    /\ recorded = <<>>
    /\ line = <<>>
    /\ translated = <<>>
    /\ executed = <<>>
    /\ out = <<>>
    /\ eof = FALSE
    /\ res = NoRes

FirstLine == res = NoRes /\ \E raw \in IterLines : ReadLine(raw)

NextIter == FirstLine

SpecIter == InitIter /\ [][NextIter]_vars


----------------------------------------------------------------------------
(* The verbs the mapping tables name, read off the strcmp chains of each
   program, and the vocabulary the properties below are stated in *)

\* custard.c, the verbs of the Linux -> Windows table (ip is matched only with "addr"
\* in its remainder, and any verb starting with "!" is matched too)
CustardPosixVerbs == {
    <<"p","w","d">>, <<"l","s">>, <<"m","k","d","i","r">>, <<"r","m","d","i","r">>, <<"r","m">>, <<"t","o","u","c","h">>, <<"c","p">>, <<"m","v">>, <<"c","a","t">>,
    <<"l","e","s","s">>, <<"m","o","r","e">>, <<"h","e","a","d">>, <<"t","a","i","l">>, <<"c","h","m","o","d">>, <<"c","h","o","w","n">>, <<"w","h","o","a","m","i">>,
    <<"u","n","a","m","e">>, <<"h","o","s","t","n","a","m","e">>, <<"d","a","t","e">>, <<"u","p","t","i","m","e">>, <<"d","f">>, <<"d","u">>, <<"f","r","e","e">>, <<"t","o","p">>,
    <<"h","t","o","p">>, <<"p","s">>, <<"k","i","l","l">>, <<"j","o","b","s">>, <<"f","g">>, <<"b","g">>, <<"p","i","n","g">>, <<"c","u","r","l">>, <<"w","g","e","t">>,
    <<"i","f","c","o","n","f","i","g">>, <<"n","e","t","s","t","a","t">>, <<"s","s","h">>, <<"s","c","p">>, <<"s","u","d","o">>, <<"a","p","t">>, <<"d","n","f">>,
    <<"p","a","c","m","a","n">>, <<"a","d","d","u","s","e","r">>, <<"p","a","s","s","w","d">>, <<"s","u">>, <<"w","h","o">>, <<"i","d">>, <<"g","r","o","u","p","s">>, <<"t","a","r">>,
    <<"z","i","p">>, <<"u","n","z","i","p">>, <<"h","i","s","t","o","r","y">>, <<"c","l","e","a","r">> }

\* custard.c, the verbs of the Windows -> Linux table ("Compress-Archive" is compared
\* with the lowercased verb, which it can never equal)
CustardWindowsVerbs == {
    <<"d","i","r">>, <<"t","y","p","e">>, <<"c","o","p","y">>, <<"m","o","v","e">>, <<"d","e","l">>, <<"e","r","a","s","e">>, <<"r","m","d","i","r">>, <<"m","k","d","i","r">>,
    <<"c","l","s">>, <<"w","h","o","a","m","i">>, <<"s","y","s","t","e","m","i","n","f","o">>, <<"h","o","s","t","n","a","m","e">>, <<"d","a","t","e">>, <<"n","e","t","s","t","a","t">>,
    <<"t","a","s","k","l","i","s","t">>, <<"t","a","s","k","k","i","l","l">>, <<"i","p","c","o","n","f","i","g">>, <<"p","i","n","g">>, <<"c","u","r","l">>, <<"s","s","h">>, <<"s","c","p">>,
    <<"p","o","w","e","r","s","h","e","l","l">>, <<"w","m","i","c">>, <<"t","a","r">>, <<"r","e","m">>, <<"h","i","s","t","o","r","y">>, <<"s","t","a","r","t">> }

\* cust.c and part_000, the verbs of their two tables
CustPosixVerbs == { <<"l","s">>, <<"p","w","d">>, <<"r","m">>, <<"m","k","d","i","r">>, <<"c","p">>, <<"m","v">>, <<"c","a","t">>, <<"c","l","e","a","r">>,
                    <<"t","o","u","c","h">> }
CustWindowsVerbs == { <<"d","i","r">>, <<"d","e","l">>, <<"c","o","p","y">>, <<"m","o","v","e">>, <<"t","y","p","e">>, <<"c","l","s">> }
PartPosixVerbs == { <<"l","s">>, <<"p","w","d">>, <<"c","a","t">>, <<"r","m">> }
PartWindowsVerbs == { <<"d","i","r">>, <<"t","y","p","e">>, <<"d","e","l">> }

\* the lowercased verb of a stage
Verb(s) == lc_copy(split_first(s).first)

\* the stage s matches a rule of the table that program v consults for source dialect src
MatchesRule(v, src, s) ==
    IF v = "custard"
    THEN IF src = 0
         THEN \/ Verb(s) \in CustardPosixVerbs
              \/ Verb(s) = <<"i","p">> /\ has(split_first(s).rest, <<"a","d","d","r">>)
              \/ Verb(s) # <<>> /\ Verb(s)[1] = "!"
         ELSE Verb(s) \in CustardWindowsVerbs
    ELSE IF v = "cust"
    THEN Verb(s) \in (IF src = 0 THEN CustPosixVerbs ELSE CustWindowsVerbs)
    ELSE Verb(s) \in (IF src = 0 THEN PartPosixVerbs ELSE PartWindowsVerbs)

\* map_command has returned for a stage of a cross-dialect session whose verb matches
\* no rule of the direction's table
Unmatched ==
    /\ pc = "mapped"
    /\ source_is_windows # host
    /\ ~MatchesRule(variant, source_is_windows, line)

\* what part_000 answers for a stage it has no rule for
GeminiNotice(s, hst) ==
    Trunc(<<"G","e","m","i","n","i"," ","A","I",":"," ","I"," ","d","o","n","'","t"," ","k","n","o","w"," ","'">> \o s \o <<"'"," ","o","n"," ">>
          \o (IF hst = 1 THEN <<"W","i","n","d","o","w","s">> ELSE <<"L","i","n","u","x","/","m","a","c","O","S","/","i","O","S">>)
          \o <<"."," ","S","u","g","g","e","s","t"," ","c","h","e","c","k","i","n","g"," ","d","o","c","u","m","e","n","t","a","t","i","o","n"," ","o","r"," ","O","S","-","s","p","e","c","i","f","i","c"," ","c","o","m","m","a","n","d",".">>, MAX_LINE - 1)

----------------------------------------------------------------------------
(* Properties of map_command, checked under SpecMap *)

C2_Identity ==
    (pc \in {"mapped", "crashed"} /\ source_is_windows = host) =>
        /\ pc = "mapped"
        /\ res.m.out = line
        /\ res.m.rule = "identity"

----------------------------------------------------------------------------
(* Properties of translate_pipeline, checked under SpecPipe *)

\* the number of segments of s when it is split on " | " (none for the empty string)
RECURSIVE CountSep(_)
CountSep(s) ==
    IF Len(s) < 3 THEN 0
    ELSE IF SubSeq(s, 1, 3) = <<" ","|"," ">> THEN 1 + CountSep(From(s, 4))
    ELSE CountSep(Tail(s))
Segments(s) == IF s = <<>> THEN 0 ELSE 1 + CountSep(s)

\* the stages of a line, split on "|" and trimmed, that are not empty
Stages(ln) == SelectSeq([i \in 1..Len(strtok_all(ln, {"|"})) |->
                            trim(strtok_all(ln, {"|"})[i])],
                        LAMBDA s : s # <<>>)

\* the number of stages of a line that the built-in dispatcher does not intercept
InputStages(ln) ==
    Cardinality({i \in 1..Len(Stages(ln)) : handle_builtin_pipeline(Stages(ln)[i]) = "none"})

\* C3, as stated: for every input line, the number of segments obtained by splitting
\* translate_pipeline's output on " | " equals the number of input stages that are
\* non-empty after trimming and are not intercepted by the built-in dispatcher.
C3_StageCountPreserved ==
    pc = "piped" => Segments(translated) = InputStages(line)

----------------------------------------------------------------------------
(* Properties of the history store, checked under SpecHist *)

\* C4: after C + k add_history calls with non-empty lines (C = MAX_HISTORY, k >= 0)
\* the store holds exactly C entries, position 0 holds the (k+1)-th recorded line and
\* the entries are the last C recorded lines in recording order; before that it holds
\* every recorded line in order.
C4_HistoryBoundedGrowth ==
    /\ hist_count = Min(Len(recorded), MAX_HISTORY)
    /\ \A i \in 0..(hist_count - 1) :
          history[i] = recorded[Len(recorded) - hist_count + 1 + i]

\* C4, the case reached: two lines beyond the capacity, the first one evicted
C4_Witness ==
    /\ Len(recorded) = MAX_HISTORY + 2
    /\ hist_count = MAX_HISTORY
    /\ history[0] = recorded[3]
    /\ history[0] # recorded[1]

\* a run of digits, and whether the number it writes is between 1 and count
AllDigits(s) == s # <<>> /\ \A i \in 1..Len(s) : isdigit(s[i])
InRange(ds, count) ==
    /\ ~ParseDigits(ds).big
    /\ ParseDigits(ds).hi = 0
    /\ 1 <= ParseDigits(ds).lo
    /\ ParseDigits(ds).lo <= count

\* C5, as stated: expand_bang("!!") returns the most recently recorded entry, or the
\* empty string when the history is empty; expand_bang("!n") returns the entry at
\* position n-1 exactly when 1 <= n <= current length and the empty string otherwise.
C5_BangResolution ==
    (pc = "hist" /\ res.kind = "bang") =>
        /\ line = <<"!","!">> =>
              res.e = (IF hist_count = 0 THEN <<>> ELSE history[hist_count - 1])
        /\ (Len(line) >= 2 /\ line[1] = "!" /\ AllDigits(Tail(line))) =>
              res.e = (IF InRange(Tail(line), hist_count)
                       THEN history[ParseDigits(Tail(line)).lo - 1]
                       ELSE <<>>)

----------------------------------------------------------------------------
(* Properties of the session, checked under Spec *)

\* a step of the command loop that read a line and came to its end
LineRead == pc = "loop" /\ ~eof' /\ pc' # "crashed"

\* exactly one entry, holding main's line buffer, is added to the store
OneEntryCreated ==
    IF hist_count < MAX_HISTORY
    THEN /\ hist_count' = hist_count + 1
         /\ history' = [history EXCEPT ![hist_count] = line']
    ELSE /\ hist_count' = hist_count
         /\ history' = [i \in 0..(MAX_HISTORY - 1) |->
                           IF i < MAX_HISTORY - 1 THEN history[i + 1] ELSE line']

\* C6, as stated: every non-empty line submitted to the session loop creates exactly
\* one history entry, recorded after bang-expansion, whatever kind of line it is
\* (ordinary commands, built-ins including exit/quit, the CTRL phrases, bang
\* references).
C6_EveryLineRecorded ==
    [][(LineRead /\ res'.raw # <<>>) => OneEntryCreated]_vars

\* the line is !! on an empty history, or !n with n outside 1..count
OutOfRangeBang(raw, count) ==
    \/ raw = <<"!","!">> /\ count = 0
    \/ /\ Len(raw) >= 2
       /\ raw[1] = "!"
       /\ AllDigits(Tail(raw))
       /\ ~InRange(Tail(raw), count)

\* C7, as stated: when the submitted line is !n with n out of range, or !! on an
\* empty history, the expansion is empty, the user is informed, the line is neither
\* translated nor passed to host execution, and the session reads the next line.
C7_HistoryRangeError ==
    [][(LineRead /\ OutOfRangeBang(res'.raw, hist_count)) =>
          /\ res'.expanded = <<>>
          /\ \E i \in 1..Len(out') : out'[i] = "no_such_history"
          /\ translated' = <<>>
          /\ executed' = <<>>
          /\ pc' = "loop"]_vars

\* stage i of the last pipeline resolved to a fallback, a note or a no-op marker
MarkerStage(i) ==
    \/ res.t.rules[i] = "fallback"
    \/ IsPrefix(<<"r","e","m"," ">>, res.t.parts[i])
    \/ res.t.parts[i] = <<"t","r","u","e">>

\* C8, as stated: in a multi-stage pipeline a stage that resolves to a fallback, an
\* error note or a no-op marker never causes its sibling stages to be skipped: every
\* other non-intercepted stage is still translated and the reassembled pipeline
\* containing them is still handed to host execution.
C8_SiblingsNotSkipped ==
    (/\ res.kind = "main"
     /\ pc = "loop"
     /\ Len(res.t.stages) >= 2
     /\ \E i \in 1..Len(res.t.stages) : MarkerStage(i)) =>
        /\ translated = res.t.buf
        /\ executed # <<>>
        /\ \A i \in 1..Len(res.t.parts) :
              \E j \in 1..Len(executed) : strstr(executed[j], res.t.parts[i]) # 0

\* the first stage of a line
FirstStage(ln) == IF Stages(ln) = <<>> THEN <<>> ELSE Stages(ln)[1]

C10_EofTerminates == eof => (pc = "done" /\ out = <<"goodbye">>)

----------------------------------------------------------------------------
(* Properties of one iteration of the command loop, checked under SpecIter *)

\* C11, as stated: when every stage of a line is intercepted by the built-in
\* dispatcher or is empty after trimming, translate_pipeline returns the empty string,
\* and the session loop never invokes host execution with an empty translated pipeline.
C11_EmptyNeverExecuted ==
    (res.kind = "main" /\ pc = "loop") =>
        /\ (res.added /\ InputStages(line) = 0) => translated = <<>>
        /\ translated = <<>> => executed = <<>>

----------------------------------------------------------------------------
(* Scenario and table properties, checked under SpecPipe and SpecMap *)

\* the remainder carries both the -l and the -a flag, separately or combined
BothFlags(rest) ==
    LET toks == strtok_all(rest, {" "})
        Has(f) == \E i \in 1..Len(toks) : toks[i] = f
    IN  \/ Has(<<"-","l">>) /\ Has(<<"-","a">>)
        \/ Has(<<"-","l","a">>)
        \/ Has(<<"-","a","l">>)

\* C12, as stated: under POSIX -> Windows, an ls stage whose remainder carries both
\* the -l and the -a flag (separately, or combined as -la / -al) is translated to a
\* string starting with "dir /a /q", and in the same pipeline an unmapped stage such
\* as "grep foo" appears unchanged in the output, the stages joined with " | ".
C12_LsLongAll ==
    (/\ pc = "piped"
     /\ source_is_windows = 0 /\ host = 1
     /\ Len(Stages(line)) = 2
     /\ Verb(Stages(line)[1]) = <<"l","s">>
     /\ BothFlags(split_first(Stages(line)[1]).rest)
     /\ Stages(line)[2] = <<"g","r","e","p"," ","f","o","o">>) =>
        /\ Len(res.t.parts) = 2
        /\ IsPrefix(<<"d","i","r"," ","/","a"," ","/","q">>, res.t.parts[1])
        /\ res.t.parts[2] = <<"g","r","e","p"," ","f","o","o">>
        /\ translated = res.t.parts[1] \o <<" ","|"," ">> \o res.t.parts[2]

\* the verbs as the two tables of custard.c write them
CustardWrittenVerbs(src) ==
    IF src = 0 THEN CustardPosixVerbs
    ELSE CustardWindowsVerbs \cup {<<"C","o","m","p","r","e","s","s","-","A","r","c","h","i","v","e">>}
WrittenVerbs(v, src) ==
    IF v = "custard" THEN CustardWrittenVerbs(src)
    ELSE IF v = "cust" THEN (IF src = 0 THEN CustPosixVerbs ELSE CustWindowsVerbs)
    ELSE (IF src = 0 THEN PartPosixVerbs ELSE PartWindowsVerbs)

\* the stage s with its unquoted verb replaced by w
WithVerb(s, w) == w \o From(s, Len(split_first(s).first) + 1)

\* C13, as stated: for every rule of either direction table and every upper/lower-case
\* variant of that rule's verb, map_command fires the same rule and returns the same
\* output as for the verb exactly as the table writes it.
C13_VerbCaseInsensitive ==
    (/\ pc = "mapped"
     /\ source_is_windows # host
     /\ line[1] \notin {"'", "\""}) =>
        \A w \in WrittenVerbs(variant, source_is_windows) :
            lc_copy(w) = Verb(line) =>
                /\ res.m.rule # "fallback"
                /\ res.m.rule =
                      map_command(variant, WithVerb(line, w), source_is_windows, host).rule
                /\ res.m.out =
                      map_command(variant, WithVerb(line, w), source_is_windows, host).out

\* a line of one stage whose verb is rem
SingleRem(ln) == strchr(ln, "|") = 0 /\ Verb(ln) = <<"r","e","m">>

\* C14, as stated: under Windows -> POSIX, for any single-stage line whose verb is rem
\* (with any remainder), the translated command is the no-op marker "true", host
\* execution is not invoked for that line, and only an informational note is emitted.
C14_RemIsNoOp ==
    (/\ res.kind = "main"
     /\ pc = "loop"
     /\ source_is_windows = 1 /\ host = 0
     /\ SingleRem(res.raw)) =>
        /\ translated = <<"t","r","u","e">>
        /\ executed = <<>>
        /\ out = <<"note">>

\* C15, as stated: under POSIX -> Windows, a touch stage with an empty remainder yields
\* an inline textual note and that stage is never executed on the host, at whatever
\* position of the pipeline the stage stands (first, middle or last).
C15_MissingArgument ==
    (/\ res.kind = "main"
     /\ pc = "loop"
     /\ source_is_windows = 0 /\ host = 1) =>
        \A i \in 1..Len(res.t.stages) :
            (Verb(res.t.stages[i]) = <<"t","o","u","c","h">> /\ split_first(res.t.stages[i]).rest = <<>>) =>
                /\ IsPrefix(<<"r","e","m"," ">>, res.t.parts[i])
                /\ \A j \in 1..Len(executed) : strstr(executed[j], res.t.parts[i]) = 0

\* the verbs of the Windows -> POSIX direct substitutions and what replaces each
DirectVerbs == {<<"d","i","r">>, <<"d","e","l">>, <<"e","r","a","s","e">>, <<"c","o","p","y">>, <<"m","o","v","e">>, <<"t","y","p","e">>, <<"c","l","s">>, <<"m","k","d","i","r">>}
Substitute(w) ==
    IF w = <<"d","i","r">> THEN <<"l","s">>
    ELSE IF w = <<"d","e","l">> \/ w = <<"e","r","a","s","e">> THEN <<"r","m">>
    ELSE IF w = <<"c","o","p","y">> THEN <<"c","p">>
    ELSE IF w = <<"m","o","v","e">> THEN <<"m","v">>
    ELSE IF w = <<"t","y","p","e">> THEN <<"c","a","t">>
    ELSE IF w = <<"c","l","s">> THEN <<"c","l","e","a","r">>
    ELSE <<"m","k","d","i","r">>

\* C16, as stated: under Windows -> POSIX, for each verb of dir, del, erase, copy, move,
\* type, cls and mkdir (any case) and every remainder, the output is the substituted
\* verb followed by a single space and the remainder unchanged when the remainder is
\* non-empty, and the substituted verb alone when it is empty.
C16_DirectSubstitution ==
    (/\ pc = "mapped"
     /\ source_is_windows = 1 /\ host = 0
     /\ Verb(line) \in DirectVerbs) =>
        res.m.out = IF res.sf.rest = <<>> THEN Substitute(Verb(line))
                    ELSE Substitute(Verb(line)) \o <<" ">> \o res.sf.rest

\* the words of a remainder, and those of them that are not the -r / -rf flag
Words(s) == strtok_all(s, {" "})
RecursiveFlag(s) == \E i \in 1..Len(Words(s)) : Words(s)[i] \in {<<"-","r">>, <<"-","r","f">>}
Targets(s) == SelectSeq(Words(s), LAMBDA w : w \notin {<<"-","r">>, <<"-","r","f">>})

\* C17, as stated: under POSIX -> Windows, an rm stage whose remainder contains the
\* flag -r or -rf is translated to "rmdir /s /q" followed by the target with the flag
\* fully stripped, and an rm stage is routed to this rule only when -r / -rf occurs as
\* a flag rather than inside a file name; otherwise the output is "del <rest>".
C17_RecursiveRemove ==
    (/\ pc = "mapped"
     /\ source_is_windows = 0 /\ host = 1
     /\ Verb(line) = <<"r","m">>) =>
        IF RecursiveFlag(res.sf.rest)
        THEN /\ IsPrefix(<<"r","m","d","i","r"," ","/","s"," ","/","q">>, res.m.out)
             /\ Words(From(res.m.out, Len(<<"r","m","d","i","r"," ","/","s"," ","/","q">>) + 1)) = Targets(res.sf.rest)
        ELSE res.m.out = IF res.sf.rest = <<>> THEN <<"d","e","l">>
                         ELSE <<"d","e","l"," ">> \o res.sf.rest

\* C18, as stated: for every stage that is non-empty after trimming, split_first
\* returns a non-empty verb (including stages that begin with a quote character, such
\* as an empty quoted span or a lone quote); the remainder may be empty.
C18_VerbNeverEmpty ==
    (pc = "mapped" /\ trim(line) # <<>>) => res.sf.first # <<>>

----------------------------------------------------------------------------
(* The history listing, checked under SpecHist *)

\* C19, as stated: the history built-in prints the last min(100, length) entries in
\* recording order, each prefixed with the index it was assigned when it was
\* recorded; across any sequence of records, including those that evict the oldest
\* entry at capacity, the index shown for a surviving entry never changes. The k-th
\* line recorded was assigned the index k.
C19_HistoryIndicesStable ==
    (pc = "hist" /\ res.kind = "shown") =>
        /\ Len(res.shown) = Min(100, hist_count)
        /\ \A k \in 1..Len(res.shown) :
              LET n == Len(recorded) - Len(res.shown) + k
              IN  res.shown[k] = <<n, recorded[n]>>

----------------------------------------------------------------------------
(* Stage order, checked under SpecPipe *)

\* the stages of a line the built-in dispatcher does not intercept, in input order
Forwarded(ln) == SelectSeq(Stages(ln), LAMBDA s : handle_builtin_pipeline(s) = "none")

\* the strings of a sequence joined with " | "
RECURSIVE JoinPipe(_)
JoinPipe(ps) ==
    IF ps = <<>> THEN <<>>
    ELSE IF Len(ps) = 1 THEN ps[1]
    ELSE ps[1] \o <<" ","|"," ">> \o JoinPipe(Tail(ps))

\* C20, as stated: for every input line, the translations of the non-empty,
\* non-intercepted stages appear in the output in the same relative order as those
\* stages appear in the input, each stage translated independently of the others: the
\* output is the translation of each such stage on its own, joined in input order.
C20_StageOrderPreserved ==
    pc = "piped" =>
        translated =
            JoinPipe([i \in 1..Len(Forwarded(line)) |->
                         map_command(variant, Forwarded(line)[i], source_is_windows, host).out])

----------------------------------------------------------------------------
(* Suppression of execution, checked under SpecIter *)

\* the last line had no stage intercepted, and no mapping rule changed any stage
PassedThrough ==
    /\ res.kind = "main"
    /\ pc = "loop"
    /\ res.t.stages # <<>>
    /\ res.t.effects = <<>>
    /\ res.t.stages = Stages(line)
    /\ \A i \in 1..Len(res.t.stages) : res.t.parts[i] = res.t.stages[i]

\* C21, as stated: a line that no mapping rule changes (unmapped passthrough, or any
\* line when the source dialect equals the host dialect) and that contains no built-in
\* verb is always handed to host execution; execution is suppressed only for
\* translations that a mapping rule produced as a note or no-op marker.
C21_PassthroughExecuted ==
    PassedThrough => (translated = line /\ executed # <<>>)

----------------------------------------------------------------------------
(* The history store as the programs keep it, checked under SpecHist and Spec *)

\* the count is within the capacity and every slot below it holds a non-empty line
HistoryWellFormed ==
    /\ 0 <= hist_count
    /\ hist_count <= MAX_HISTORY
    /\ \A i \in 0..(hist_count - 1) : history[i] # NULL /\ Len(history[i]) > 0

\* C22: in every reachable state 0 <= hist_count <= MAX_HISTORY and every slot at a
\* position below hist_count holds a non-empty stored line; in every step hist_count
\* does not decrease; and add_history with an empty or null line leaves the store
\* unchanged.
C22_StoreWellFormed ==
    [][/\ HistoryWellFormed
       /\ HistoryWellFormed'
       /\ hist_count' >= hist_count
       /\ (res'.kind = "record" /\ (line' = NULL \/ line' = <<>>)) =>
             (history' = history /\ hist_count' = hist_count)]_vars

\* C22, the case reached: an empty line offered to a store that is full and has
\* already evicted an entry
C22_Witness ==
    /\ res.kind = "record"
    /\ line = <<>>
    /\ hist_count = MAX_HISTORY
    /\ Len(recorded) > MAX_HISTORY
    /\ res.before = history

\* the string is exactly !! or ! followed by digits only
BangReference(s) == s = <<"!","!">> \/ (Len(s) >= 2 /\ s[1] = "!" /\ AllDigits(Tail(s)))

\* C23: in custard.c's session loop no history entry is ever exactly !! or ! followed
\* by digits: a bang reference is either replaced by the entry it resolves to before
\* being recorded, or (when it resolves to nothing) not recorded at all.
C23_NoBangInHistory ==
    variant = "custard" =>
        /\ \A i \in 0..(hist_count - 1) : ~BangReference(history[i])
        /\ (res.kind = "main" /\ BangReference(res.raw)) =>
              IF res.expanded = <<>>
              THEN ~res.added
              ELSE pc = "loop" /\ res.added => history[hist_count - 1] = res.expanded

\* C23, the case reached: !! typed after ls, recorded as a second ls
C23_Witness ==
    /\ variant = "custard"
    /\ res.kind = "main"
    /\ res.raw = <<"!","!">>
    /\ res.expanded = <<"l","s">>
    /\ hist_count = 2
    /\ history[0] = <<"l","s">>
    /\ history[1] = <<"l","s">>

----------------------------------------------------------------------------
(* The verb buffers, checked under SpecMap *)

\* map_command went past its identity test and called split_first and lc_copy
Tokenized == variant = "cust" \/ source_is_windows # host

\* C24, as stated: for every stage up to MAX_LINE - 1 characters, split_first and
\* lc_copy write at most MAX_TOK characters (verb plus terminator) into the verb
\* buffers: the verb stored never exceeds MAX_TOK - 1 characters.
C24_VerbFitsBuffer ==
    (/\ pc \in {"mapped", "crashed"}
     /\ Tokenized
     /\ Len(line) <= MAX_LINE - 1) =>
        Len(split_first(line).first) <= MAX_TOK - 1

====
